---- MODULE Spec2Model ----
(***************************************************************************)
(* The minesweeper game engine of src/minesweeper/minesweeper.py (class    *)
(* Game) as a state machine.  One Game object is constructed (Init) and    *)
(* then driven through its public interface: select, quit, the flags       *)
(* setter and the read-only properties state, status, game_over, result.   *)
(* The board uses zero-based indexing [x][y], as the code does.            *)
(* Two further specifications cover what surrounds that interface: the     *)
(* random placement of the mines in Game.__init__ (SpecConstruct) and the   *)
(* iterator Runner that drives a game with a GameAI (SpecRunner), also     *)
(* with the RandomAI of the module (SpecRandomAI).  The older engine of     *)
(* src/minesweeper.py has a specification of its own (SpecOld).             *)
(***************************************************************************)
EXTENDS Integers, Sequences, FiniteSets, TLC

\* Bounds of the model: boards of at most MaxWidth x MaxHeight and at most
\* MaxCells squares, mine layouts of at most MaxMines mines, at most MaxDraws
\* random draws in one placement of the mines.
MaxWidth == 3
MaxHeight == 2
MaxCells == 6
MaxMines == 2
MaxDraws == 4

VARIABLES
    width,                  \* Game.width
    height,                 \* Game.height
    num_mines,              \* Game.num_mines (from the configuration)
    num_moves,              \* Game.num_moves
    _num_exposed_squares,   \* Game._num_exposed_squares
    _explosion,             \* Game._explosion
    _quit,                  \* Game._quit
    _num_safe_squares,      \* Game._num_safe_squares
    exposed,                \* Game.exposed[x][y]
    counts,                 \* Game.counts[x][y]
    mines,                  \* Game.mines[x][y]
    _flags,                 \* Game._flags
    last,                   \* the last call on the Game: its name and the error it raised
    value,                  \* the value the last call returned (None if it raised)
    returned,               \* history: number of select calls that returned a MoveResult
    pc,                     \* where Game.__init__ stands: "_place_mines", "raised" or "ready"
    locations,              \* the local set of Game._place_mines
    draws,                  \* history: number of positions Game._place_mines has drawn
    calls,                  \* the calls the last Runner.__next__ made, in order
    coordinates,            \* Runner.__next__: what ai.next() returned, <<>> if not called
    selected,               \* the position the last Runner.__next__ passed to game.select
    updated,                \* the results the last Runner.__next__ passed to ai.update
    stop,                   \* the last Runner.__next__ raised StopIteration
    exposed_squares         \* RandomAI.exposed_squares

vars == <<width, height, num_mines, num_moves, _num_exposed_squares, _explosion,
          _quit, _num_safe_squares, exposed, counts, mines, _flags, last, value,
          returned, pc, locations, draws, calls, coordinates, selected, updated, stop,
          exposed_squares>>

----------------------------------------------------------------------------
\* Values

\* Python's None, as a cell of Game.state (a count is 0..8).
None == -1

\* GameStatus
PLAYING == "PLAYING"
VICTORY == "VICTORY"
DEFEAT == "DEFEAT"
QUIT == "QUIT"

\* The ValueError messages of Game.
ErrOutside == "Position is outside the board"
ErrOver == "Game is already over"
ErrExposed == "Position already exposed"
ErrNotOver == "Game is not over"
NoError == "no error"

\* The ValueError of random.randint(0, -1).
ErrEmptyRange == "empty range for randrange()"

Square(x, y, n) == [x |-> x, y |-> y, num_mines |-> n]

\* set(iterable) of a Python list: the elements, duplicates merged.
set(list) == {list[i] : i \in DOMAIN list}

MoveResult(st, new_squares) == [status |-> st, new_squares |-> set(new_squares)]

GameResult(victory, n) == [victory |-> victory, num_moves |-> n]

\* itertools.product([-1, 0, 1], repeat=2), in iteration order.
product == << <<-1, -1>>, <<-1, 0>>, <<-1, 1>>,
              <<0, -1>>,  <<0, 0>>,  <<0, 1>>,
              <<1, -1>>,  <<1, 0>>,  <<1, 1>> >>

----------------------------------------------------------------------------
\* Game: helpers and properties

Xs == 0 .. width - 1
Ys == 0 .. height - 1

_is_outside_board(x, y) ==
    IF x < 0 \/ x >= width THEN TRUE
    ELSE IF y < 0 \/ y >= height THEN TRUE
    ELSE FALSE

\* Mutation: squares of count 1 are grown through as well.
_test_if_count_0_le1(x, y) == counts[x][y] <= 1

\* Mutation: the test is for a square without a mine.
_test_if_count_0_no_mine(x, y) == ~mines[x][y]

_test_if_count_0(x, y) == counts[x][y] = 0

\* Mutation: the offset (0, 0) is not skipped, a mine counts itself.
RECURSIVE count_from_self(_, _, _, _, _)
count_from_self(m, x, y, i, acc) ==
    IF i > Len(product) THEN acc
    ELSE LET dx == product[i][1]
             dy == product[i][2]
         IN  IF ~_is_outside_board(x + dx, y + dy)
             THEN count_from_self(m, x, y, i + 1,
                                  acc + (IF m[x + dx][y + dy] THEN 1 ELSE 0))
             ELSE count_from_self(m, x, y, i + 1, acc)

\* The neighbour count of (x, y) in layout m: the loop over product of
\* _init_counts, from offset i on, added to acc.
RECURSIVE count_from(_, _, _, _, _)
count_from(m, x, y, i, acc) ==
    IF i > Len(product) THEN acc
    ELSE LET dx == product[i][1]
             dy == product[i][2]
         IN  IF dx = 0 /\ dy = 0 THEN count_from(m, x, y, i + 1, acc)
             ELSE IF ~_is_outside_board(x + dx, y + dy)
                  THEN count_from(m, x, y, i + 1,
                                  acc + (IF m[x + dx][y + dy] THEN 1 ELSE 0))
                  ELSE count_from(m, x, y, i + 1, acc)

_init_counts(m) == [x \in Xs |-> [y \in Ys |-> count_from(m, x, y, 1, 0)]]

\* Mutation: quitting does not end the game.
game_over_no_quit ==
    _explosion \/ _num_exposed_squares = _num_safe_squares

game_over ==
    _explosion \/ _quit \/ _num_exposed_squares = _num_safe_squares

status ==
    IF ~game_over THEN PLAYING
    ELSE IF _quit THEN QUIT
    ELSE IF _explosion THEN DEFEAT
    ELSE VICTORY

\* itertools.product(range(width), range(height)), in iteration order.
positions == [i \in 1 .. width * height |-> <<(i - 1) \div height, (i - 1) % height>>]

\* Mutation: the count of every square is written, exposed or not.
RECURSIVE state_from_all(_, _)
state_from_all(st, i) ==
    IF i > Len(positions) THEN st
    ELSE LET x == positions[i][1]
             y == positions[i][2]
         IN  state_from_all([st EXCEPT ![x][y] = counts[x][y]], i + 1)

\* The loop of Game.state from position i on: the count of every exposed
\* square is written into the snapshot st.
RECURSIVE state_from(_, _)
state_from(st, i) ==
    IF i > Len(positions) THEN st
    ELSE LET x == positions[i][1]
             y == positions[i][2]
         IN  IF exposed[x][y]
             THEN state_from([st EXCEPT ![x][y] = counts[x][y]], i + 1)
             ELSE state_from(st, i + 1)

\* The board from the player's perspective: a fresh grid of None, then the
\* loop.
state == state_from([x \in Xs |-> [y \in Ys |-> None]], 1)

\* Mutation: every game that did not explode is reported as a victory.
result_no_explosion ==
    IF ~game_over
    THEN [raised |-> ErrNotOver, value |-> None]
    ELSE [raised |-> NoError, value |-> GameResult(~_explosion, num_moves)]

\* Game.result: raises while the game is not over.
result ==
    IF ~game_over
    THEN [raised |-> ErrNotOver, value |-> None]
    ELSE [raised |-> NoError, value |-> GameResult(status = VICTORY, num_moves)]

----------------------------------------------------------------------------
\* Game._update: the working state g of one call is the exposed grid, the
\* exposed-square counter, the explosion flag, the list of squares and the
\* stack, with the number of pushes and pops made so far.

\* Mutation: the square is exposed but not counted.
_expose_square_uncounted(g, x, y) ==
    [g EXCEPT !.exposed[x][y] = TRUE]

_expose_square(g, x, y) ==
    [g EXCEPT !.exposed[x][y] = TRUE, !.num_exposed = @ + 1]

\* Mutation: every offset with dx = 0 or dy = 0 is skipped, not only (0, 0).
RECURSIVE grow_neighbours_diagonal(_, _, _, _)
grow_neighbours_diagonal(g, x, y, i) ==
    IF i > Len(product) THEN g
    ELSE LET dx == product[i][1]
             dy == product[i][2]
             new_x == x + dx
             new_y == y + dy
         IN  IF dx = 0 \/ dy = 0 THEN grow_neighbours_diagonal(g, x, y, i + 1)
             ELSE IF ~_is_outside_board(new_x, new_y) /\ ~g.exposed[new_x][new_y]
                  THEN LET g1 == _expose_square(g, new_x, new_y)
                           g2 == [g1 EXCEPT !.squares =
                                     Append(@, Square(new_x, new_y, counts[new_x][new_y]))]
                           g3 == IF _test_if_count_0(new_x, new_y)
                                 THEN [g2 EXCEPT !.stack = Append(@, <<new_x, new_y>>),
                                                 !.pushes = @ + 1]
                                 ELSE g2
                       IN  grow_neighbours_diagonal(g3, x, y, i + 1)
                  ELSE grow_neighbours_diagonal(g, x, y, i + 1)

\* The for loop over the 8 neighbours of the popped (x, y), from offset i on.
RECURSIVE grow_neighbours(_, _, _, _)
grow_neighbours(g, x, y, i) ==
    IF i > Len(product) THEN g
    ELSE LET dx == product[i][1]
             dy == product[i][2]
             new_x == x + dx
             new_y == y + dy
         IN  IF dx = 0 /\ dy = 0 THEN grow_neighbours(g, x, y, i + 1)
             ELSE IF ~_is_outside_board(new_x, new_y) /\ ~g.exposed[new_x][new_y]
                  THEN LET g1 == _expose_square(g, new_x, new_y)
                           g2 == [g1 EXCEPT !.squares =
                                     Append(@, Square(new_x, new_y, counts[new_x][new_y]))]
                           g3 == IF _test_if_count_0(new_x, new_y)
                                 THEN [g2 EXCEPT !.stack = Append(@, <<new_x, new_y>>),
                                                 !.pushes = @ + 1]
                                 ELSE g2
                       IN  grow_neighbours(g3, x, y, i + 1)
                  ELSE grow_neighbours(g, x, y, i + 1)

\* The while loop: pop the last position, visit its neighbours.
RECURSIVE grow(_)
grow(g) ==
    IF Len(g.stack) = 0 THEN g
    ELSE LET top == g.stack[Len(g.stack)]
             g1 == [g EXCEPT !.stack = SubSeq(@, 1, Len(@) - 1), !.pops = @ + 1]
         IN  grow(grow_neighbours(g1, top[1], top[2], 1))

\* Mutation: the call starts from a grid with nothing exposed.
_update_fresh_grid(x, y) ==
    LET g0 == [exposed |-> [i \in Xs |-> [j \in Ys |-> FALSE]],
               num_exposed |-> _num_exposed_squares,
               explosion |-> _explosion, squares |-> <<>>, stack |-> <<>>,
               pushes |-> 0, pops |-> 0]
        g1 == _expose_square(g0, x, y)
        g2 == [g1 EXCEPT !.squares = <<Square(x, y, counts[x][y])>>]
    IN  IF mines[x][y] THEN [g2 EXCEPT !.explosion = TRUE]
        ELSE IF counts[x][y] # 0 THEN g2
        ELSE grow([g2 EXCEPT !.stack = <<<<x, y>>>>, !.pushes = 1])

\* Mutation: the selected position is put on the stack twice.
_update_push_twice(x, y) ==
    LET g0 == [exposed |-> exposed, num_exposed |-> _num_exposed_squares,
               explosion |-> _explosion, squares |-> <<>>, stack |-> <<>>,
               pushes |-> 0, pops |-> 0]
        g1 == _expose_square(g0, x, y)
        g2 == [g1 EXCEPT !.squares = <<Square(x, y, counts[x][y])>>]
    IN  IF mines[x][y] THEN [g2 EXCEPT !.explosion = TRUE]
        ELSE IF counts[x][y] # 0 THEN g2
        ELSE grow([g2 EXCEPT !.stack = <<<<x, y>>, <<x, y>>>>, !.pushes = 2])

\* Mutation: the count is tested before the mine.
_update_count_first(x, y) ==
    LET g0 == [exposed |-> exposed, num_exposed |-> _num_exposed_squares,
               explosion |-> _explosion, squares |-> <<>>, stack |-> <<>>,
               pushes |-> 0, pops |-> 0]
        g1 == _expose_square(g0, x, y)
        g2 == [g1 EXCEPT !.squares = <<Square(x, y, counts[x][y])>>]
    IN  IF counts[x][y] # 0 THEN g2
        ELSE IF mines[x][y] THEN [g2 EXCEPT !.explosion = TRUE]
        ELSE grow([g2 EXCEPT !.stack = <<<<x, y>>>>, !.pushes = 1])

_update(x, y) ==
    LET g0 == [exposed |-> exposed, num_exposed |-> _num_exposed_squares,
               explosion |-> _explosion, squares |-> <<>>, stack |-> <<>>,
               pushes |-> 0, pops |-> 0]
        g1 == _expose_square(g0, x, y)
        g2 == [g1 EXCEPT !.squares = <<Square(x, y, counts[x][y])>>]
    IN  IF mines[x][y] THEN [g2 EXCEPT !.explosion = TRUE]
        ELSE IF counts[x][y] # 0 THEN g2
        ELSE grow([g2 EXCEPT !.stack = <<<<x, y>>>>, !.pushes = 1])

----------------------------------------------------------------------------
\* Construction

Cells == {<<x, y>> : x \in Xs, y \in Ys}

\* The mine layouts explored: every placement of at most MaxMines mines.
Layouts ==
    {[x \in Xs |-> [y \in Ys |-> <<x, y>> \in S]] :
        S \in {T \in SUBSET Cells : Cardinality(T) <= MaxMines}}

\* Game.__init__: a layout is either supplied (used verbatim, whatever
\* num_mines says) or placed at random (any layout of num_mines mines).
Init ==
    /\ width \in 1 .. MaxWidth
    /\ height \in 1 .. MaxHeight
    /\ width * height <= MaxCells
    /\ num_mines \in 0 .. MaxMines
    /\ num_moves = 0
    /\ _num_exposed_squares = 0
    /\ _explosion = FALSE
    /\ _quit = FALSE
    /\ _num_safe_squares = width * height - num_mines
    /\ exposed = [x \in Xs |-> [y \in Ys |-> FALSE]]
    /\ _flags = {}
    /\ mines \in Layouts
    /\ counts = _init_counts(mines)
    /\ last = [op |-> "__init__", raised |-> NoError]
    /\ value = None
    /\ returned = 0
    /\ pc = "ready"
    /\ locations = {}
    /\ draws = 0
    /\ calls = <<>>
    /\ coordinates = <<>>
    /\ selected = <<>>
    /\ updated = <<>>
    /\ stop = FALSE
    /\ exposed_squares = {}

\* What no operation of a constructed Game changes: the configuration with
\* the layout and its counts, the finished construction, and the Runner.
runner == <<calls, coordinates, selected, updated, stop, exposed_squares>>

config == <<width, height, num_mines, _num_safe_squares, mines, counts, pc, locations,
            draws, runner>>

\* Game.__init__ without a layout, for any three integers of the
\* configuration (nothing is validated), up to the call of _place_mines.
InitConstruct ==
    /\ width \in -1 .. MaxWidth
    /\ height \in 0 .. MaxHeight
    /\ width * height <= MaxCells
    /\ num_mines \in -1 .. MaxMines
    /\ num_moves = 0
    /\ _num_exposed_squares = 0
    /\ _explosion = FALSE
    /\ _quit = FALSE
    /\ _num_safe_squares = width * height - num_mines
    /\ exposed = [x \in Xs |-> [y \in Ys |-> FALSE]]
    /\ _flags = {}
    /\ mines = [x \in Xs |-> [y \in Ys |-> FALSE]]
    /\ counts = [x \in Xs |-> [y \in Ys |-> 0]]
    /\ last = [op |-> "__init__", raised |-> NoError]
    /\ value = None
    /\ returned = 0
    /\ pc = "_place_mines"
    /\ locations = {}
    /\ draws = 0
    /\ calls = <<>>
    /\ coordinates = <<>>
    /\ selected = <<>>
    /\ updated = <<>>
    /\ stop = FALSE
    /\ exposed_squares = {}

fields == <<width, height, num_mines, num_moves, _num_exposed_squares, _explosion,
            _quit, _num_safe_squares, exposed, _flags, value, returned, runner>>

\* Mutation: the loop runs once more.
place_more_le == Cardinality(locations) <= num_mines

\* The test of the while loop of Game._place_mines.
place_more == Cardinality(locations) < num_mines

\* One pass of the loop: a position is drawn, each coordinate with
\* random.randint(0, size - 1), and added to the set.  randint raises
\* ValueError when size - 1 < 0, and __init__ raises with it.
PlaceDraw ==
    /\ pc = "_place_mines"
    /\ place_more
    /\ draws < MaxDraws
    /\ draws' = draws + 1
    /\ IF width - 1 < 0 \/ height - 1 < 0
       THEN /\ pc' = "raised"
            /\ last' = [op |-> "__init__", raised |-> ErrEmptyRange]
            /\ UNCHANGED locations
       ELSE /\ \E x \in 0 .. width - 1, y \in 0 .. height - 1 :
                   locations' = locations \cup {<<x, y>>}
            /\ UNCHANGED <<pc, last>>
    /\ UNCHANGED <<fields, mines, counts>>

\* The loop ends: the set is written into mines, _init_counts runs and
\* __init__ returns the Game.
PlaceDone ==
    /\ pc = "_place_mines"
    /\ ~place_more
    /\ mines' = [x \in Xs |-> [y \in Ys |-> <<x, y>> \in locations]]
    /\ counts' = _init_counts(mines')
    /\ pc' = "ready"
    /\ UNCHANGED <<fields, last, locations, draws>>

NextConstruct ==
    \/ PlaceDraw
    \/ PlaceDone

SpecConstruct == InitConstruct /\ [][NextConstruct]_vars

----------------------------------------------------------------------------
\* Operations

\* The positions a caller may pass: every square of the board, and positions
\* off it on each side, by one and by more than one.
OffBoard ==
    {<<-1, 0>>, <<0, -1>>, <<width, 0>>, <<0, height>>, <<width + 1, height + 1>>}

Args == Cells \cup OffBoard

\* A call that raises ValueError(err), and a call that returns v.
raise(op, err) == last' = [op |-> op, raised |-> err] /\ value' = None

return(op, v) == last' = [op |-> op, raised |-> NoError] /\ value' = v

\* Mutation: the game-over test comes before the bounds test.
select_error_over_first(x, y) ==
    IF _explosion THEN ErrOver
    ELSE IF _is_outside_board(x, y) THEN ErrOutside
    ELSE IF exposed[x][y] THEN ErrExposed
    ELSE NoError

\* Mutation: no test for an already exposed square.
select_error_unchecked(x, y) ==
    IF _is_outside_board(x, y) THEN ErrOutside
    ELSE IF _explosion THEN ErrOver
    ELSE NoError

\* Mutation: a flagged square cannot be selected.
select_error_flagged(x, y) ==
    IF _is_outside_board(x, y) THEN ErrOutside
    ELSE IF _explosion THEN ErrOver
    ELSE IF exposed[x][y] \/ <<x, y>> \in _flags THEN ErrExposed
    ELSE NoError

\* The validation of Game.select: the error it raises, if any.
select_error(x, y) ==
    IF _is_outside_board(x, y) THEN ErrOutside
    ELSE IF _explosion THEN ErrOver
    ELSE IF exposed[x][y] THEN ErrExposed
    ELSE NoError

\* Mutation: num_moves advances by the number of squares exposed.
select_per_square(x, y) ==
    IF select_error(x, y) # NoError THEN
        /\ raise("select", select_error(x, y))
        /\ UNCHANGED <<config, num_moves, _num_exposed_squares, _explosion, _quit,
                       exposed, _flags, returned>>
    ELSE LET g == _update(x, y) IN
        /\ num_moves' = num_moves + Len(g.squares)
        /\ exposed' = g.exposed
        /\ _num_exposed_squares' = g.num_exposed
        /\ _explosion' = g.explosion
        /\ UNCHANGED <<config, _quit, _flags>>
        /\ returned' = returned + 1
        /\ return("select", MoveResult(status', g.squares))

\* Game.select(x, y)
select(x, y) ==
    IF select_error(x, y) # NoError THEN
        /\ raise("select", select_error(x, y))
        /\ UNCHANGED <<config, num_moves, _num_exposed_squares, _explosion, _quit,
                       exposed, _flags, returned>>
    ELSE LET g == _update(x, y) IN
        /\ num_moves' = num_moves + 1
        /\ exposed' = g.exposed
        /\ _num_exposed_squares' = g.num_exposed
        /\ _explosion' = g.explosion
        /\ UNCHANGED <<config, _quit, _flags>>
        /\ returned' = returned + 1
        /\ return("select", MoveResult(status', g.squares))

Select == \E p \in Args : select(p[1], p[2])

\* Game.quit()
Quit ==
    /\ _quit' = TRUE
    /\ return("quit", None)
    /\ UNCHANGED <<config, num_moves, _num_exposed_squares, _explosion, exposed,
                   _flags, returned>>

\* The lists a caller assigns to Game.flags: the empty list, and a list with
\* a position twice and a position off the board.
FlagLists == {<<>>, << <<0, 0>>, <<-1, height>>, <<0, 0>> >>}

\* Game.flags = flags
SetFlags ==
    \E flags \in FlagLists :
        /\ _flags' = set(flags)
        /\ return("flags=", None)
        /\ UNCHANGED <<config, num_moves, _num_exposed_squares, _explosion, _quit,
                       exposed, returned>>

game == <<config, num_moves, _num_exposed_squares, _explosion, _quit, exposed, _flags,
          returned>>

\* Reading Game.state
ReadState == return("state", state) /\ UNCHANGED game

\* Reading Game.status
ReadStatus == return("status", status) /\ UNCHANGED game

\* Reading Game.game_over
ReadGameOver == return("game_over", game_over) /\ UNCHANGED game

\* Reading Game.result
ReadResult ==
    /\ last' = [op |-> "result", raised |-> result.raised]
    /\ value' = result.value
    /\ UNCHANGED game

Next ==
    \/ Select
    \/ Quit
    \/ SetFlags
    \/ ReadState
    \/ ReadStatus
    \/ ReadGameOver
    \/ ReadResult

Spec == Init /\ [][Next]_vars

----------------------------------------------------------------------------
\* Runner: one game driven by a GameAI.  The AI is any implementation of the
\* interface: next() returns any position, flags returns any list.

\* Mutation: the flags are refreshed whatever the status.
refresh_flags_always(st) == TRUE

\* The test of Runner.__next__ after ai.update(result).
refresh_flags(st) == st = PLAYING

\* Runner.__next__() while the game is not over, with the position p that
\* ai.next() returns and the list that ai.flags returns.  An error raised by
\* game.select leaves __next__ at once.
RunnerStep(p, flags) ==
    /\ coordinates' = p
    /\ selected' = coordinates'
    /\ stop' = FALSE
    /\ UNCHANGED <<width, height, num_mines, _num_safe_squares, mines, counts,
                   pc, locations, draws, _quit>>
    /\ IF select_error(p[1], p[2]) # NoError THEN
           /\ calls' = <<"ai.next", "game.select">>
           /\ updated' = <<>>
           /\ raise("select", select_error(p[1], p[2]))
           /\ UNCHANGED <<num_moves, _num_exposed_squares, _explosion, exposed,
                          _flags, returned>>
       ELSE LET g == _update(p[1], p[2]) IN
           /\ num_moves' = num_moves + 1
           /\ exposed' = g.exposed
           /\ _num_exposed_squares' = g.num_exposed
           /\ _explosion' = g.explosion
           /\ returned' = returned + 1
           /\ updated' = <<MoveResult(status', g.squares)>>
           /\ IF refresh_flags(status')
              THEN /\ calls' = <<"ai.next", "game.select", "ai.update",
                                 "ai.flags", "game.flags=">>
                   /\ _flags' = set(flags)
                   /\ return("flags=", None)
              ELSE /\ calls' = <<"ai.next", "game.select", "ai.update">>
                   /\ _flags' = _flags
                   /\ return("select", MoveResult(status', g.squares))

\* Runner.__next__() when the game is over: StopIteration.
RunnerStop ==
    /\ calls' = <<>>
    /\ coordinates' = <<>>
    /\ selected' = <<>>
    /\ updated' = <<>>
    /\ stop' = TRUE
    /\ UNCHANGED <<width, height, num_mines, _num_safe_squares, mines, counts,
                   pc, locations, draws, num_moves, _num_exposed_squares,
                   _explosion, _quit, exposed, _flags, returned, last, value>>

\* Runner.__next__(): one step of the iterator, for any GameAI.
RunnerNext ==
    /\ IF ~game_over
       THEN \E p \in Args, flags \in FlagLists : RunnerStep(p, flags)
       ELSE RunnerStop
    /\ UNCHANGED exposed_squares

\* The visualizer between two steps: PyGameVisualizer.run calls game.quit()
\* on a QUIT event.
NextRunner ==
    \/ RunnerNext
    \/ Quit

SpecRunner == Init /\ [][NextRunner]_vars

----------------------------------------------------------------------------
\* RandomAI driven by a Runner, as run_games sets them up: ai.reset(config)
\* and Game(config) with the same valid configuration, the mines placed at
\* random, so that the AI draws on the board of the game.

InitRandomAI ==
    /\ Init
    /\ num_mines < width * height
    /\ Cardinality({c \in Cells : mines[c[1]][c[2]]}) = num_mines

\* RandomAI.next(): the positions the loop can return, those drawn on the
\* board that are not in exposed_squares.  With none the loop never ends.
RandomAI_next ==
    {p \in {<<x, y>> : x \in 0 .. width - 1, y \in 0 .. height - 1} :
        p \notin exposed_squares}

\* Mutation: the AI records the position it selected, not the new squares.
RandomAI_update_own_move ==
    exposed_squares' = IF updated' = <<>> THEN exposed_squares
                       ELSE exposed_squares \cup {coordinates'}

\* RandomAI.update(result), with the results the step passed to it.
RandomAI_update ==
    exposed_squares' =
        IF updated' = <<>> THEN exposed_squares
        ELSE exposed_squares \cup {<<sq.x, sq.y>> : sq \in updated'[1].new_squares}

\* Runner.__next__() with a RandomAI, which inherits flags = [] of GameAI.
RunnerRandomAI ==
    /\ pc = "ready"
    /\ IF ~game_over THEN
           IF RandomAI_next = {} THEN
               /\ pc' = "RandomAI.next"
               /\ UNCHANGED <<width, height, num_mines, _num_safe_squares, mines,
                              counts, locations, draws, num_moves,
                              _num_exposed_squares, _explosion, _quit, exposed, _flags,
                              returned, last, value, runner>>
           ELSE \E p \in RandomAI_next : RunnerStep(p, <<>>) /\ RandomAI_update
       ELSE RunnerStop /\ UNCHANGED exposed_squares

NextRandomAI == RunnerRandomAI

\* ENABLED <<RunnerRandomAI>>_vars as a state predicate: a step that changes
\* the state can be taken before the game is over, and once more after it,
\* to raise StopIteration.
RunnerRandomAIEnabled ==
    pc = "ready" /\ (~game_over \/ ~stop \/ calls # <<>>)

\* The for loop of run_games takes steps until StopIteration: weak fairness
\* of RunnerRandomAI, written out with the predicate above.
FairRandomAI ==
    []<>(~RunnerRandomAIEnabled) \/ []<><<RunnerRandomAI>>_vars

SpecRandomAI == InitRandomAI /\ [][NextRandomAI]_vars /\ FairRandomAI

----------------------------------------------------------------------------
\* The older engine, class Game of src/minesweeper.py.  Its fields board,
\* num_safe_squares, num_exposed_squares and explosion are held in the
\* variables mines, _num_safe_squares, _num_exposed_squares and _explosion.

\* The IndexError of a list indexed past its end.
ErrIndex == "list index out of range"

Position(x, y, num_neighbors) == [x |-> x, y |-> y, num_bomb_neighbors |-> num_neighbors]

OldMoveResult(explosion, new_squares) ==
    [explosion |-> explosion, new_squares |-> set(new_squares)]

\* Game._is_outside_board of the older engine.
old_is_outside_board(x, y) ==
    IF x < 0 \/ x = width THEN TRUE
    ELSE IF y < 0 \/ y = height THEN TRUE
    ELSE FALSE

\* Game._update_board: _expose_square and the loop are those of the newer
\* engine, whose bounds test agrees with the older one on the neighbours of
\* a square of the board.
old_update_board(x, y) ==
    LET g0 == [exposed |-> exposed, num_exposed |-> _num_exposed_squares,
               explosion |-> _explosion, squares |-> <<>>, stack |-> <<>>,
               pushes |-> 0, pops |-> 0]
        g1 == _expose_square(g0, x, y)
        g2 == [g1 EXCEPT !.squares = <<Square(x, y, counts[x][y])>>]
    IN  IF counts[x][y] # 0 THEN g2
        ELSE grow([g2 EXCEPT !.stack = <<<<x, y>>>>, !.pushes = 1])

\* The error Game.select raises before it changes anything: ValueError by
\* its two tests, IndexError when exposed[x][y] is read past the end of a
\* list (x and y are not negative there).
old_select_error(x, y) ==
    IF old_is_outside_board(x, y) THEN ErrOutside
    ELSE IF _explosion THEN ErrOver
    ELSE IF x >= width \/ y >= height THEN ErrIndex
    ELSE NoError

\* Game.select(x, y) of the older engine.
old_select(x, y) ==
    IF old_select_error(x, y) # NoError THEN
        /\ raise("select", old_select_error(x, y))
        /\ UNCHANGED game
    ELSE IF exposed[x][y] THEN
        /\ return("select", None)
        /\ UNCHANGED game
    ELSE IF mines[x][y] THEN
        /\ num_moves' = num_moves + 1
        /\ _explosion' = TRUE
        /\ return("select", OldMoveResult(TRUE, <<>>))
        /\ UNCHANGED <<config, _num_exposed_squares, _quit, exposed, _flags, returned>>
    ELSE LET g == old_update_board(x, y) IN
        /\ num_moves' = num_moves + 1
        /\ exposed' = g.exposed
        /\ _num_exposed_squares' = g.num_exposed
        /\ return("select", OldMoveResult(FALSE,
               [i \in 1 .. Len(g.squares) |->
                   Position(g.squares[i].x, g.squares[i].y, g.squares[i].num_mines)]))
        /\ UNCHANGED <<config, _explosion, _quit, _flags, returned>>

\* The positions a caller passes to the older engine: those of Args, and
\* positions with one coordinate past the size and the other on the board or
\* at the size.
OldArgs == Args \cup {<<width + 1, 0>>, <<0, height + 1>>, <<width + 1, height>>}

OldSelect == \E p \in OldArgs : old_select(p[1], p[2])

\* Game.__init__ of the older engine: num_mines mines placed at random.
InitOld ==
    /\ Init
    /\ Cardinality({c \in Cells : mines[c[1]][c[2]]}) = num_mines

NextOld == OldSelect

SpecOld == InitOld /\ [][NextOld]_vars

----------------------------------------------------------------------------
\* Vocabulary of the properties

ExposedSet == {c \in Cells : exposed[c[1]][c[2]]}

MineSet == {c \in Cells : mines[c[1]][c[2]]}

Terminal == status \in {VICTORY, DEFEAT, QUIT}

OffTheBoard(x, y) == x < 0 \/ x >= width \/ y < 0 \/ y >= height

SquareAt(c) == Square(c[1], c[2], counts[c[1]][c[2]])

\* The on-board 8-neighbours of a square.
Neighbours(c) ==
    {d \in Cells : /\ d # c
                   /\ d[1] - c[1] \in -1 .. 1
                   /\ d[2] - c[2] \in -1 .. 1}

\* The least set that contains S and every neighbour of each of its
\* zero-count squares.
RECURSIVE Closure(_)
Closure(S) ==
    LET T == S \cup UNION {Neighbours(c) : c \in {d \in S : counts[d[1]][d[2]] = 0}}
    IN  IF T = S THEN S ELSE Closure(T)

\* The reference region of a selection.
Region(c) == IF counts[c[1]][c[2]] # 0 THEN {c} ELSE Closure({c})

SelectReturned == last.op = "select" /\ last.raised = NoError

\* A configuration the specification calls valid, with a layout of exactly
\* num_mines mines.
ValidGame ==
    /\ num_mines < width * height
    /\ Cardinality(MineSet) = num_mines

AllSafeExposed == Cells \ MineSet \subseteq ExposedSet

----------------------------------------------------------------------------
\* Properties

\* C1: once the game is over (VICTORY, DEFEAT or QUIT), every further select,
\* whatever the target, fails with an error and leaves exposed, num_moves
\* and status unchanged.  Stated for games of a valid configuration.
C1_SelectFailsOnceOver ==
    [][\A p \in Args :
          (ValidGame /\ game_over /\ select(p[1], p[2]))
              => /\ last'.raised # NoError
                 /\ exposed' = exposed
                 /\ num_moves' = num_moves
                 /\ status' = status]_vars

\* C2: a terminal status is absorbing: once status is VICTORY, DEFEAT or
\* QUIT, every operation leaves it at that same value.  Stated for games of
\* a valid configuration.
C2_TerminalStatusAbsorbing ==
    [][(ValidGame /\ Terminal) => status' = status]_vars

\* C3: in status PLAYING an accepted select on a non-mine square exposes
\* exactly the reference region: afterwards exposed is what it was plus
\* Region, and new_squares holds exactly the Square of every square of
\* Region that was unexposed before, each appended once.
C3_SelectExposesRegion ==
    [][\A p \in Cells :
          (/\ status = PLAYING
           /\ ~mines[p[1]][p[2]]
           /\ ~exposed[p[1]][p[2]]
           /\ select(p[1], p[2]))
              => /\ last'.raised = NoError
                 /\ ExposedSet' = ExposedSet \cup Region(p)
                 /\ value'.new_squares
                        = {SquareAt(c) : c \in Region(p) \ ExposedSet}
                 /\ Len(_update(p[1], p[2]).squares)
                        = Cardinality(Region(p) \ ExposedSet)]_vars

\* C3 witness: a select returned PLAYING after growing a region of several
\* squares whose border held a square exposed by an earlier move.
C3_Witness ==
    /\ SelectReturned
    /\ value.status = PLAYING
    /\ Cardinality(value.new_squares) > 1
    /\ \E c \in ExposedSet :
          /\ SquareAt(c) \notin value.new_squares
          /\ \E d \in Neighbours(c) :
                counts[d[1]][d[2]] = 0 /\ SquareAt(d) \in value.new_squares

\* C4: in status PLAYING, select on an unexposed mine returns DEFEAT with
\* exactly one new Square, the one selected, makes game_over true and
\* exposes no other square.
C4_SelectMineIsDefeat ==
    [][\A p \in Cells :
          (/\ status = PLAYING
           /\ mines[p[1]][p[2]]
           /\ ~exposed[p[1]][p[2]]
           /\ select(p[1], p[2]))
              => /\ last'.raised = NoError
                 /\ value'.status = DEFEAT
                 /\ value'.new_squares = {SquareAt(p)}
                 /\ game_over'
                 /\ ExposedSet' = ExposedSet \cup {p}]_vars

\* C4 witness: a mine with no neighbouring mine was selected after a safe
\* move and the select returned DEFEAT.
C4_Witness ==
    /\ SelectReturned
    /\ value.status = DEFEAT
    /\ num_moves = 2
    /\ \E c \in MineSet : SquareAt(c) \in value.new_squares /\ counts[c[1]][c[2]] = 0

\* C5: with a layout of exactly num_mines mines, an accepted select on a
\* non-mine square in status PLAYING returns VICTORY if and only if every
\* non-mine square is exposed after it, and PLAYING otherwise; and whenever
\* status is VICTORY all non-mine squares are exposed and result.victory is
\* true.
C5_VictoryIffAllSafeExposed ==
    /\ [](Cardinality(MineSet) = num_mines /\ status = VICTORY
            => AllSafeExposed /\ result.raised = NoError /\ result.value.victory)
    /\ [][\A p \in Cells :
            (/\ Cardinality(MineSet) = num_mines
             /\ status = PLAYING
             /\ ~mines[p[1]][p[2]]
             /\ ~exposed[p[1]][p[2]]
             /\ select(p[1], p[2]))
                => /\ last'.raised = NoError
                   /\ value'.status = (IF AllSafeExposed' THEN VICTORY ELSE PLAYING)]_vars

\* C5 witness: the third move of a game with mines exposed the last safe
\* squares and returned VICTORY.
C5_Witness ==
    /\ SelectReturned
    /\ value.status = VICTORY
    /\ Cardinality(MineSet) = num_mines
    /\ num_mines > 0
    /\ num_moves = 3
    /\ status = VICTORY

\* C6: num_moves is the number of select calls that returned a MoveResult:
\* a select that returns adds exactly 1 however many squares it exposes,
\* every other call (a select that raises, quit, the flags setter, a read)
\* leaves it unchanged, and result.num_moves reports that number.
C6_NumMovesCountsReturnedSelects ==
    /\ [](/\ num_moves = returned
          /\ game_over => result.value.num_moves = returned)
    /\ [][IF last'.op = "select" /\ last'.raised = NoError
          THEN num_moves' = num_moves + 1
          ELSE num_moves' = num_moves]_vars

\* C6 witness: after two moves that exposed more than two squares, a select
\* raised and the game is not over.
C6_Witness ==
    /\ last.op = "select"
    /\ last.raised = ErrExposed
    /\ num_moves = 2
    /\ Cardinality(ExposedSet) > 2

\* C7: in any state, select with x outside [0, width) or y outside
\* [0, height) raises the out-of-bounds error and changes nothing: exposed,
\* num_moves, status and flags stay as they were.
C7_SelectOutsideRaises ==
    [][(\E p \in Args : OffTheBoard(p[1], p[2]) /\ select(p[1], p[2]))
              => /\ last'.raised = ErrOutside
                 /\ exposed' = exposed
                 /\ num_moves' = num_moves
                 /\ status' = status
                 /\ _flags' = _flags]_vars

\* C7 witness: an out-of-bounds select raised in a finished game that had
\* moves and flags.
C7_Witness ==
    /\ last.op = "select"
    /\ last.raised = ErrOutside
    /\ num_moves > 0
    /\ _flags # {}
    /\ game_over

\* C8: strict policy: in status PLAYING, select on an on-board square that
\* is already exposed raises an error and leaves exposed, num_moves and
\* status unchanged.
C8_SelectExposedRaises ==
    [][\A p \in Cells :
          (status = PLAYING /\ exposed[p[1]][p[2]] /\ select(p[1], p[2]))
              => /\ last'.raised = ErrExposed
                 /\ exposed' = exposed
                 /\ num_moves' = num_moves
                 /\ status' = status]_vars

\* C8 witness: a select raised the already-exposed error in a game in
\* progress in which one move has exposed several squares by region growing.
C8_Witness ==
    /\ last.op = "select"
    /\ last.raised = ErrExposed
    /\ status = PLAYING
    /\ num_moves = 1
    /\ Cardinality(ExposedSet) > 1

\* C9: reading result raises the not-finished error exactly when game_over
\* is false; when the game is over it returns a GameResult with
\* victory = (status = VICTORY) and num_moves = num_moves; the read changes
\* no state.
C9_ResultRead ==
    [][last'.op = "result"
          => /\ (last'.raised = ErrNotOver) <=> ~game_over
             /\ game_over =>
                   /\ last'.raised = NoError
                   /\ value' = [victory |-> status = VICTORY, num_moves |-> num_moves]
             /\ UNCHANGED game]_vars

\* C9 witness: result was read after a quit and reported no victory.
C9_Witness ==
    /\ last.op = "result"
    /\ last.raised = NoError
    /\ status = QUIT
    /\ ~value.victory
    /\ value.num_moves > 0

\* C10: in every state the snapshot state has None exactly at the unexposed
\* squares and counts[x][y] at the exposed ones, and a read of state returns
\* that snapshot.
C10_StateHidesUnexposed ==
    /\ \A c \in Cells :
          /\ state[c[1]][c[2]] = None <=> ~exposed[c[1]][c[2]]
          /\ exposed[c[1]][c[2]] => state[c[1]][c[2]] = counts[c[1]][c[2]]
    /\ last.op = "state" => value = state

\* C10 witness: state was read after a defeat, with an unexposed mine and an
\* unexposed safe square of nonzero count left on the board.
C10_Witness ==
    /\ last.op = "state"
    /\ status = DEFEAT
    /\ \E c \in MineSet \ ExposedSet : value[c[1]][c[2]] = None
    /\ \E c \in Cells \ (MineSet \cup ExposedSet) :
          counts[c[1]][c[2]] > 0 /\ value[c[1]][c[2]] = None
    /\ \E c \in ExposedSet \ MineSet : value[c[1]][c[2]] = counts[c[1]][c[2]]

\* C11: after construction counts[x][y] is the number of mines among the
\* on-board squares (x+dx, y+dy), dx, dy in {-1, 0, 1}, (dx, dy) # (0, 0):
\* the square itself and off-board positions are not counted and nothing
\* wraps around.
C11_CountsAreNeighbourMines ==
    \A c \in Cells :
        counts[c[1]][c[2]] =
            Cardinality({d \in MineSet : /\ d # c
                                         /\ d[1] - c[1] \in {-1, 0, 1}
                                         /\ d[2] - c[2] \in {-1, 0, 1}})

\* C11 witness: a board three squares wide with a mine in the first column
\* that counts no mine itself, a square of count 2, and a square at the far
\* edge of count 0 two columns away from a mine.
C11_Witness ==
    /\ width = 3
    /\ \E c \in MineSet : c[1] = 0 /\ counts[c[1]][c[2]] = 0
    /\ \E c \in Cells : counts[c[1]][c[2]] = 2
    /\ \E c \in Cells : c[1] = 2 /\ counts[c[1]][c[2]] = 0 /\ <<0, c[2]>> \in MineSet

\* A configuration the specification calls valid.
ValidConfig ==
    /\ width > 0
    /\ height > 0
    /\ 0 <= num_mines
    /\ num_mines < width * height

\* C12: for a valid configuration constructed without a layout, when the
\* random placement has finished exactly num_mines distinct squares of the
\* board hold a mine, whatever positions were drawn and however often a
\* position was drawn again.
C12_PlacedMinesCount ==
    (pc = "ready" /\ ValidConfig) =>
        /\ locations \subseteq Cells
        /\ MineSet = locations
        /\ Cardinality(MineSet) = num_mines

\* Two mines are placed with more than two draws: a position was drawn twice.
C12_Witness ==
    /\ pc = "ready"
    /\ ValidConfig
    /\ num_mines = 2
    /\ draws > num_mines
    /\ Cardinality(MineSet) = 2

\* C13: the construction of a Game from an invalid configuration
\* (num_mines >= width*height, num_mines < 0, width <= 0 or height <= 0)
\* returns no Game.
C13_InvalidConfigReturnsNoGame ==
    ~ValidConfig => pc # "ready"

\* What select(p) does in a game whose flags were never set, stated without
\* the flags: the error by the position, the explosion and the exposure, and
\* for an accepted call one more move and the square or its region exposed.
SelectOutcome(p) ==
    IF OffTheBoard(p[1], p[2]) THEN last'.raised = ErrOutside /\ exposed' = exposed
    ELSE IF _explosion THEN last'.raised = ErrOver /\ exposed' = exposed
    ELSE IF p \in ExposedSet THEN last'.raised = ErrExposed /\ exposed' = exposed
    ELSE /\ last'.raised = NoError
         /\ num_moves' = num_moves + 1
         /\ ExposedSet' = ExposedSet \cup (IF p \in MineSet THEN {p} ELSE Region(p))
         /\ value'.new_squares = {SquareAt(c) : c \in ExposedSet' \ ExposedSet}
         /\ value'.status = IF _quit THEN QUIT
                            ELSE IF p \in MineSet THEN DEFEAT
                            ELSE IF _num_exposed_squares' = _num_safe_squares
                                 THEN VICTORY ELSE PLAYING

\* C14: an assignment to Game.flags stores the positions of the list as a
\* set, valid or not, and leaves mines, counts, exposed, num_moves, status
\* and game_over as they were; a select made once flags are set leaves the
\* flags alone and has the outcome it has without flags.
C14_FlagsAreInert ==
    [][/\ last'.op = "flags=" =>
            /\ last'.raised = NoError
            /\ _flags' \in {set(flags) : flags \in FlagLists}
            /\ mines' = mines /\ counts' = counts /\ exposed' = exposed
            /\ num_moves' = num_moves
            /\ status' = status /\ game_over' = game_over
       /\ (last'.op = "select" /\ _flags # {}) =>
            /\ _flags' = _flags
            /\ \A p \in Args : select(p[1], p[2]) => SelectOutcome(p)]_vars

\* The flags hold (0, 0) and a position off the board, and the one accepted
\* select of the game was made on (0, 0) after they were set.
C14_Witness ==
    /\ SelectReturned
    /\ _flags = {<<0, 0>>, <<-1, height>>}
    /\ num_moves = 1
    /\ ExposedSet = {<<0, 0>>}
    /\ Cardinality(Cells) > 1

\* C15: no operation turns an exposed square back to unexposed: a square
\* that is exposed before a step is exposed after it.
C15_ExposureMonotone ==
    [][\A c \in Cells : exposed[c[1]][c[2]] => exposed'[c[1]][c[2]]]_vars

\* Two accepted selects have exposed squares one after the other, and a
\* third select has then failed on an exposed square.
C15_Witness ==
    /\ num_moves = 2
    /\ Cardinality(ExposedSet) >= 2
    /\ last.op = "select"
    /\ last.raised = ErrExposed

\* C16: quit() called while the status is PLAYING leaves the game over with
\* status QUIT and a result whose victory is false, and leaves exposed and
\* num_moves as they were; the status QUIT is never left.
C16_QuitWhilePlaying ==
    [][/\ (status = PLAYING /\ Quit) =>
            /\ game_over'
            /\ status' = QUIT
            /\ result'.raised = NoError
            /\ result'.value.victory = FALSE
            /\ exposed' = exposed
            /\ num_moves' = num_moves
       /\ status = QUIT => status' = QUIT]_vars

\* quit() has been called in a game with moves made, no mine hit and safe
\* squares still unexposed.
C16_Witness ==
    /\ last.op = "quit"
    /\ status = QUIT
    /\ num_moves >= 1
    /\ ~_explosion
    /\ ValidGame
    /\ ~AllSafeExposed

\* The squares a step exposes, as Square values.
NewSquares == {SquareAt(c) : c \in ExposedSet' \ ExposedSet}

\* A Runner step at game-over: no call, StopIteration, the game untouched.
OverStep ==
    /\ calls' = <<>>
    /\ updated' = <<>>
    /\ stop'
    /\ num_moves' = num_moves
    /\ exposed' = exposed

\* A complete Runner step: ai.next, game.select on its coordinates, ai.update
\* with the MoveResult of that select, and the flags refreshed from ai.flags
\* exactly when the result is PLAYING.
FullStep ==
    /\ calls' = <<"ai.next", "game.select", "ai.update">>
                    \o (IF status' = PLAYING THEN <<"ai.flags", "game.flags=">> ELSE <<>>)
    /\ Len(coordinates') = 2
    /\ selected' = coordinates'
    /\ updated' = <<[status |-> status', new_squares |-> NewSquares]>>
    /\ num_moves' = num_moves + 1
    /\ ~stop'
    /\ IF status' = PLAYING THEN _flags' \in {set(flags) : flags \in FlagLists}
                            ELSE _flags' = _flags

\* A Runner step that game.select ends with an error.
ErrorStep ==
    /\ calls' = <<"ai.next", "game.select">>
    /\ selected' = coordinates'
    /\ updated' = <<>>
    /\ last'.op = "select"
    /\ last'.raised \in {ErrOutside, ErrExposed}
    /\ ~stop'
    /\ num_moves' = num_moves
    /\ exposed' = exposed
    /\ _flags' = _flags

\* C17 as stated: every Runner step taken while the game is not over makes,
\* in this order, one ai.next(), one game.select on the returned coordinates
\* and one ai.update with the MoveResult of that select, and assigns
\* game.flags from ai.flags iff the result is PLAYING; a step taken when the
\* game is over makes no call and raises StopIteration.
C17_RunnerStepOrder ==
    [][RunnerNext => IF game_over THEN OverStep ELSE FullStep]_vars

\* C17 amended: the step is complete when game.select accepts the position
\* of ai.next(), which is then on the board and unexposed; when select
\* raises, the step ends after ai.next and game.select, without ai.update
\* and without the flags.
C17_RunnerStepOrderAccepted ==
    [][RunnerNext =>
          IF game_over THEN OverStep
          ELSE IF /\ ~OffTheBoard(coordinates'[1], coordinates'[2])
                  /\ coordinates' \notin ExposedSet
               THEN FullStep
               ELSE ErrorStep]_vars

\* The second complete step of a game has left it PLAYING and refreshed the
\* flags from the AI.
C17_Witness ==
    /\ calls = <<"ai.next", "game.select", "ai.update", "ai.flags", "game.flags=">>
    /\ updated[1].status = PLAYING
    /\ num_moves = 2
    /\ _flags = {<<0, 0>>, <<-1, height>>}

\* C18: region growing never exposes a mine: after every step, while the
\* status is PLAYING no mined square is exposed, and the step exposes a
\* mined square only if it is an accepted select of that very square.
C18_NoMineExposedByGrowing ==
    [][/\ status' = PLAYING => ExposedSet' \cap MineSet' = {}
       /\ \A c \in MineSet \cap (ExposedSet' \ ExposedSet) :
              select(c[1], c[2]) /\ last'.raised = NoError]_vars

\* One select has grown a region of three squares or more on a board with
\* a mine, and the game goes on.
C18_Witness ==
    /\ status = PLAYING
    /\ num_moves = 1
    /\ Cardinality(ExposedSet) >= 3
    /\ MineSet # {}
    /\ SelectReturned

\* C19: the counter compared with width*height - num_mines counts safe
\* squares only: it is the number of exposed squares without a mine, it is
\* at most width*height - num_mines, and a select that hits a mine does not
\* increase it.  Stated for layouts of exactly num_mines mines.
C19_CounterCountsSafeSquares ==
    ValidGame =>
        /\ _num_exposed_squares = Cardinality(ExposedSet \ MineSet)
        /\ _num_exposed_squares <= width * height - num_mines

\* C20: with a supplied layout of any number of mines, in a configuration
\* 0 <= num_mines < width*height and a game not quit, an accepted select of
\* a square without a mine returns VICTORY if it leaves every square without
\* a mine exposed and PLAYING otherwise, and after no step the status is
\* VICTORY while a square without a mine is unexposed.
C20_VictoryBySuppliedLayout ==
    [][/\ (ValidConfig /\ status' = VICTORY) => AllSafeExposed'
       /\ \A p \in Cells \ MineSet :
              (ValidConfig /\ ~_quit /\ select(p[1], p[2]) /\ last'.raised = NoError)
                  => value'.status = IF AllSafeExposed' THEN VICTORY ELSE PLAYING]_vars

\* C21: the loop of one select ends: the call pushes at most width*height
\* positions, pops as many as it pushed, at most width*height, and leaves
\* the stack empty; each square it exposes was unexposed and is exposed
\* once, so that over the whole game the number of calls of _expose_square
\* is the number of exposed squares.
C21_RegionGrowingTerminates ==
    [][\A p \in Cells :
          (select_error(p[1], p[2]) = NoError /\ select(p[1], p[2])) =>
              LET g == _update(p[1], p[2]) IN
                  /\ g.pushes <= width * height
                  /\ g.pops = g.pushes
                  /\ Len(g.stack) = 0
                  /\ Len(g.squares) = Cardinality(ExposedSet' \ ExposedSet)
                  /\ \A i \in 1 .. Len(g.squares) :
                         <<g.squares[i].x, g.squares[i].y>> \notin ExposedSet
                  /\ _num_exposed_squares' = Cardinality(ExposedSet')]_vars

\* One select has exposed a whole board of 3 x 2 squares without a mine:
\* every square was pushed.
C21_Witness ==
    /\ SelectReturned
    /\ num_moves = 1
    /\ MineSet = {}
    /\ width = 3
    /\ height = 2
    /\ ExposedSet = Cells

\* C22: between operations every exposed square without a mine whose count
\* is 0 has all its on-board neighbours exposed.
C22_ExposedZeroIsClosed ==
    \A c \in ExposedSet \ MineSet :
        counts[c[1]][c[2]] = 0 => Neighbours(c) \subseteq ExposedSet

\* The second select of a game has left an exposed square of count 0 with
\* its neighbours, on a board with a mine and a safe square still unexposed.
C22_Witness ==
    /\ SelectReturned
    /\ num_moves = 2
    /\ status = PLAYING
    /\ MineSet # {}
    /\ \E c \in ExposedSet \ MineSet :
          counts[c[1]][c[2]] = 0 /\ Cardinality(Neighbours(c)) >= 3

\* C23: a game of a valid configuration with mines placed at random, driven
\* by a Runner with a RandomAI, reaches game-over and no select raises:
\* after every step exposed_squares is the set of exposed squares; every
\* step taken before game-over is a complete step on an unexposed square of
\* the board and exposes at least one more square; RandomAI.next() always
\* returns; num_moves never exceeds width*height - num_mines.
C23_RandomAIGameEnds ==
    /\ [][RunnerRandomAI =>
              /\ exposed_squares' = ExposedSet'
              /\ pc' = "ready"
              /\ ~game_over =>
                     /\ FullStep
                     /\ coordinates' \in Cells \ ExposedSet
                     /\ ExposedSet \subseteq ExposedSet'
                     /\ ExposedSet' # ExposedSet
                     /\ num_moves' <= width * height - num_mines]_vars
    /\ <>game_over

\* The game has ended in victory after as many moves as there are safe
\* squares, three or more, and the Runner has signalled the end.
C23_Witness ==
    /\ stop
    /\ status = VICTORY
    /\ num_moves = width * height - num_mines
    /\ num_moves >= 3
    /\ exposed_squares = ExposedSet

\* C24: in the older engine every select(x, y) with x outside [0, width) or
\* y outside [0, height), x > width and y > height included, raises the
\* error 'outside the board' and leaves exposed, num_moves and explosion
\* unchanged.
C24_OldSelectOutsideRaises ==
    [][\A p \in OldArgs :
          (OffTheBoard(p[1], p[2]) /\ old_select(p[1], p[2])) =>
              /\ last'.raised = ErrOutside
              /\ exposed' = exposed
              /\ num_moves' = num_moves
              /\ _explosion' = _explosion]_vars
====
